---------------------------- MODULE Spec2Model ----------------------------
(***************************************************************************)
(* Model of the hybrid code-translation engine of backend/server.js:      *)
(* the GET /ConceptMap/translate handler, run by concurrent requests      *)
(* against the relational store (namaste_icd_mappings and the NAMASTE     *)
(* terminology tables) and the remote semantic search service, and of     *)
(* generateCodeSystem, the ingestion that writes that store.              *)
(*                                                                         *)
(* A handler is a JavaScript async function: it runs without interruption *)
(* from one await to the next, so every action below is the code between  *)
(* two awaits.  The awaits are the two pool.query calls and axios.post.   *)
(***************************************************************************)
EXTENDS Integers, Sequences, FiniteSets, TLC

VARIABLES
    mappings,   \* rows of table namaste_icd_mappings
    terms,      \* terms[t]: rows of terminology table t
    pc,         \* pc[r]: where request r is suspended
    query,      \* query[r]: req.query of request r (code, system, text)
    sent,       \* sent[r]: the responses written to res, in order
    log,        \* log[r]: the store and service calls of r, in order
    files,      \* files[t]: the rows of the CSV file ingested into table t
    ipc,        \* where the generateCodeSystem run is suspended
    config,     \* the config of the run
    csvRows,    \* the rows the run read from its file
    step,       \* the write of the batch the run is at
    tx,         \* the tables as the run's open transaction sees them
    before,     \* the tables as they were when the transaction began
    ran,        \* the configs whose batch has been committed
    ilog,       \* the queries of the run that settled, in order
    cell,       \* the value extractMappingCodes is called with
    extracted,  \* what the call gave
    conn,       \* the pool client of the generateCodeSystem run
    icdFile,    \* the rows of icd-11.csv
    mpc,        \* where the master ingestion run is suspended
    mstep,      \* the SAT table or the ICD write the run is at
    icdRows,    \* the rows the run read from icd-11.csv
    mtx,        \* the master tables as the run's open transaction sees them
    master,     \* the SAT tables ingested and the rows of icd11_codes_master
    embeddings, \* the codes registered with the AI service
    mconn       \* the pool client of the master ingestion run

ivars == <<files, ipc, config, csvRows, step, tx, before, ran, ilog, conn>>
tvars == <<pc, query, sent, log>>
xvars == <<cell, extracted>>
mvars == <<icdFile, mpc, mstep, icdRows, mtx, master, embeddings, mconn>>
ovars == <<xvars, mvars>>
vars  == <<mappings, terms, pc, query, sent, log, ivars, xvars, mvars>>

-----------------------------------------------------------------------------
(* JavaScript values.  A missing query parameter and an SQL NULL are      *)
(* undefined/null, which the code only ever tests for truthiness.         *)

Undefined == "<undefined>"

\* !v is false exactly for a non-empty string; "" and undefined are falsy.
Truthy(v) == v # Undefined /\ v # ""

\* a || b
OrElse(a, b) == IF Truthy(a) THEN a ELSE b

-----------------------------------------------------------------------------
(* Input domains.                                                          *)

Reqs == {"r1", "r2"}

AyurvedaUri == "https://www.ayush-bridge.org/fhir/CodeSystem/namaste-ayurveda"
SiddhaUri   == "https://www.ayush-bridge.org/fhir/CodeSystem/namaste-siddha"
IcdUri      == "http://id.who.int/icd/release/11/mms"

\* The pieces a system string is made of; String.includes looks for
\* 'namaste' among them.
SystemParts(s) ==
    CASE s = AyurvedaUri -> <<"https://www.ayush-bridge.org/fhir/CodeSystem/", "namaste", "-ayurveda">>
      [] s = SiddhaUri   -> <<"https://www.ayush-bridge.org/fhir/CodeSystem/", "namaste", "-siddha">>
      [] s = IcdUri      -> <<"http://id.who.int/icd/release/11/mms">>
      [] OTHER           -> <<>>

Includes(s, needle) == \E i \in 1..Len(SystemParts(s)) : SystemParts(s)[i] = needle

NamasteCodes == {"AAA-1", "BB-2"}

CodeParams   == {Undefined, ""} \cup NamasteCodes
SystemParams == {Undefined, AyurvedaUri, IcdUri}
TextParams   == {Undefined, "", "fever with chills"}

AyurvedaTable == "namaste_ayurveda_codes"
SiddhaTable   == "namaste_siddha_codes"
MappingTable  == "namaste_icd_mappings"
AiService     == "http://ai-service:5000/semantic_search"
TermTables    == {AyurvedaTable, SiddhaTable}


-----------------------------------------------------------------------------
(* The store.  generateCodeSystem is the only writer of these tables: it   *)
(* stores a terminology row only with a truthy code and display, one row   *)
(* per code (code UNIQUE NOT NULL), and a mapping row only with a truthy   *)
(* source and target code, one row per (source_code, target_code).         *)

MappingRow(src, tgt) ==
    [source_system |-> AyurvedaUri, source_code |-> src,
     target_system |-> IcdUri, target_code |-> tgt]

MappingRows ==
    {MappingRow("AAA-1", "SR11"), MappingRow("AAA-1", "SK2.1Z"), MappingRow("BB-2", "SK2.1Z")}

TermEntry(code, display, definition, broader_term) ==
    [code |-> code, display |-> display, definition |-> definition,
     broader_term |-> broader_term]

\* A row whose CSV row had no Ontology_branches cell.
TermRow(code, display, definition) == TermEntry(code, display, definition, Undefined)

\* definition is row['Long_definition'] || row['Short_definition']: a text,
\* the empty string, or NULL.
AyurvedaRows ==
    {TermRow("AAA-1", "Jvara", d) : d \in {Undefined, "", "Fever of humoral origin"}}
    \cup {TermRow("BB-2", "Kasa", "Cough of humoral origin")}

SiddhaRows == {TermRow("BB-2", "Suram", "Fever in Siddha")}

UniqueCodes(rows) == \A x, y \in rows : x.code = y.code => x = y

StoreStates ==
    {[m |-> m, a |-> a, s |-> s] :
        m \in SUBSET MappingRows,
        a \in {t \in SUBSET AyurvedaRows : UniqueCodes(t)},
        s \in SUBSET SiddhaRows}

\* The stores against which two requests are served at once.
ConcurrentStores ==
    {[m |-> {MappingRow("AAA-1", "SR11"), MappingRow("AAA-1", "SK2.1Z")},
      a |-> {TermRow("AAA-1", "Jvara", "Fever of humoral origin")},
      s |-> {}],
     [m |-> {MappingRow("AAA-1", "SR11")},
      a |-> {TermRow("BB-2", "Kasa", "Cough of humoral origin")},
      s |-> SiddhaRows],
     [m |-> {}, a |-> {TermRow("AAA-1", "Jvara", Undefined)}, s |-> SiddhaRows],
     [m |-> {}, a |-> {TermRow("AAA-1", "Jvara", "Fever of humoral origin")}, s |-> {}]}

-----------------------------------------------------------------------------
(* The remote semantic search: POST /semantic_search {query, top_k}.       *)

TopK == 3

\* confidence 1.0 in hundredths; scores are hundredths too.
ScoreOne == 100

MaxSuggestions == 2

Candidates == {[code |-> "SR11", score |-> 40], [code |-> "5A11", score |-> 90]}

SeqsUpTo(S, n) == UNION {[1..k -> S] : k \in 0..n}

\* What awaiting axios.post can give: a rejection (network error, non-2xx
\* status), a 2xx answer whose body is JSON null, a 2xx answer whose body
\* has no "suggestions", or a 2xx answer with a list of candidates.
AiOutcomes ==
    {[kind |-> "reject", message |-> m, suggestions |-> <<>>] :
        m \in {"Request failed with status code 503"}}
    \cup {[kind |-> "nullBody", message |-> "", suggestions |-> <<>>]}
    \cup {[kind |-> "noList", message |-> "", suggestions |-> <<>>]}
    \cup {[kind |-> "list", message |-> "", suggestions |-> l] :
            l \in SeqsUpTo(Candidates, MaxSuggestions)}

StoreErrors == {"Connection terminated unexpectedly"}

-----------------------------------------------------------------------------
(* Responses: res.status(n).json(body); res.json(body) is status 200.      *)

Json(status, body) == [status |-> status, body |-> body]

MissingParameters ==
    Json(400, [error |-> "Missing required parameters. Must provide 'code' or 'text'."])

DeterministicResponse(row) ==
    Json(200, [result |-> TRUE,
               method |-> "deterministic",
               confidence |-> ScoreOne,
               translatedCode |-> row.target_code,
               all_suggestions |-> <<[code |-> row.target_code, score |-> ScoreOne]>>])

NoTextResponse ==
    Json(200, [result |-> FALSE,
               message |-> "No deterministic mapping found and no text available for AI search."])

\* Variant: another method tag.
NoSuggestionsResponse_Tagged ==
    Json(200, [result |-> FALSE,
               method |-> "semantic",
               message |-> "AI search found no relevant mappings."])

NoSuggestionsResponse ==
    Json(200, [result |-> FALSE,
               method |-> "semantic_ai",
               message |-> "AI search found no relevant mappings."])

\* Variant: the candidates are ranked again by score before they are relayed.
SemanticResponse_Sorted(suggestions) ==
    LET ranked == SortSeq(suggestions, LAMBDA a, b : a.score > b.score) IN
    Json(200, [result |-> TRUE,
               method |-> "semantic_ai",
               confidence |-> ranked[1].score,
               translatedCode |-> ranked[1].code,
               all_suggestions |-> ranked])

SemanticResponse(suggestions) ==
    Json(200, [result |-> TRUE,
               method |-> "semantic_ai",
               confidence |-> suggestions[1].score,
               translatedCode |-> suggestions[1].code,
               all_suggestions |-> suggestions])

AiFailedResponse(message) ==
    Json(500, [error |-> "AI reasoning engine is offline or failed.", details |-> message])

TranslationFailed(message) ==
    Json(500, [error |-> "Translation failed.", details |-> message])

\* Variant: the catch block answers like an empty result.
AiAnswer_Downgraded(o) ==
    CASE o.kind = "reject"   -> NoSuggestionsResponse
      [] o.kind = "nullBody" -> NoSuggestionsResponse
      [] o.kind = "noList"   -> NoSuggestionsResponse
      [] o.kind = "list"     ->
            IF Len(o.suggestions) = 0 THEN NoSuggestionsResponse
            ELSE SemanticResponse(o.suggestions)

\* Variant: only a missing list is the negative result; an empty list is
\* read at index 0, which throws into the catch block.
AiAnswer_EmptyIsError(o) ==
    CASE o.kind = "reject"   -> AiFailedResponse(o.message)
      [] o.kind = "nullBody" ->
            AiFailedResponse("Cannot read properties of null (reading 'suggestions')")
      [] o.kind = "noList"   -> NoSuggestionsResponse
      [] o.kind = "list"     ->
            IF Len(o.suggestions) = 0
            THEN AiFailedResponse("Cannot read properties of undefined (reading 'score')")
            ELSE SemanticResponse(o.suggestions)

\* Lines 733-756: what the handler answers to each outcome of axios.post.
AiAnswer(o) ==
    CASE o.kind = "reject"   -> AiFailedResponse(o.message)
      [] o.kind = "nullBody" ->
            AiFailedResponse("Cannot read properties of null (reading 'suggestions')")
      [] o.kind = "noList"   -> NoSuggestionsResponse
      [] o.kind = "list"     ->
            IF Len(o.suggestions) = 0 THEN NoSuggestionsResponse
            ELSE SemanticResponse(o.suggestions)

-----------------------------------------------------------------------------
(* The handler's decisions.                                                *)

\* Variant: || in place of &&.
ParametersMissing_Either(q) == ~Truthy(q.code) \/ ~Truthy(q.text)

\* Line 684.
ParametersMissing(q) == ~Truthy(q.code) /\ ~Truthy(q.text)

\* Line 690: system.includes('namaste').
IndicatesNamaste(system) == Truthy(system) /\ Includes(system, "namaste")

\* Variant: a request with text goes to the semantic stage first.
TakesDeterministicStage_TextFirst(q) ==
    Truthy(q.code) /\ IndicatesNamaste(q.system) /\ ~Truthy(q.text)

\* Variant: the system is not looked at.
TakesDeterministicStage_AnySystem(q) == Truthy(q.code)

\* Line 690.
TakesDeterministicStage(q) == Truthy(q.code) /\ IndicatesNamaste(q.system)

\* Lines 691-694: SELECT target_code FROM namaste_icd_mappings WHERE source_code = $1
MappingQuery(code) == {row \in mappings : row.source_code = code}

\* Lines 716-719: SELECT display, definition FROM namaste_ayurveda_codes WHERE code = $1
ResolverTable == AyurvedaTable

TermQuery(code) == {row \in terms[ResolverTable] : row.code = code}

\* Variant: a code is resolved even when text was supplied.
NeedsResolver_CodeFirst(q) == Truthy(q.code)

\* Line 714.
NeedsResolver(q) == ~Truthy(q.text) /\ Truthy(q.code)

\* Variant: the display term is preferred to the definition.
ResolvedText_DisplayFirst(q, rows) ==
    IF rows # {} THEN LET row == CHOOSE x \in rows : TRUE
                      IN  OrElse(row.display, row.definition)
    ELSE q.text

\* Variant: without an entry the code itself is searched for.
ResolvedText_CodeAsText(q, rows) ==
    IF rows # {} THEN LET row == CHOOSE x \in rows : TRUE
                      IN  OrElse(row.definition, row.display)
    ELSE OrElse(q.text, q.code)

\* Lines 711-724: queryText once the terminology rows are known.
ResolvedText(q, rows) ==
    IF rows # {} THEN LET row == CHOOSE x \in rows : TRUE
                      IN  OrElse(row.definition, row.display)
    ELSE q.text

\* Entries of log[r]: a call of a table or of the service with its argument
\* (ev = "call"), and how that call settled (ev = "return" with what came
\* back, ev = "throw" with the error message).
Event(op, ev, arg, k, result) ==
    [op |-> op, ev |-> ev, arg |-> arg, top_k |-> k, result |-> result]

\* Lines 734-737: the body posted to /semantic_search.
AiCall(queryText) == Event(AiService, "call", queryText, TopK, <<>>)

-----------------------------------------------------------------------------
(* The handler, one action per stretch of code between two awaits.         *)

\* return res...json(resp): the handler ends.
Reply(r, resp, lg) ==
    /\ pc'   = [pc EXCEPT ![r] = "done"]
    /\ sent' = [sent EXCEPT ![r] = Append(@, resp)]
    /\ log'  = [log EXCEPT ![r] = lg]

\* The handler suspends at an await.
Await(r, at, lg) ==
    /\ pc'   = [pc EXCEPT ![r] = at]
    /\ sent' = sent
    /\ log'  = [log EXCEPT ![r] = lg]

\* Variant: line 727 without its return; the handler answers and goes on.
SemanticSearch_NoReturn(r, queryText, lg) ==
    IF ~Truthy(queryText)
    THEN /\ pc'   = [pc EXCEPT ![r] = "aiCall"]
         /\ sent' = [sent EXCEPT ![r] = Append(@, NoTextResponse)]
         /\ log'  = [log EXCEPT ![r] = Append(lg, AiCall(queryText))]
    ELSE Await(r, "aiCall", Append(lg, AiCall(queryText)))

\* Lines 726-737, with queryText settled.
SemanticSearch(r, queryText, lg) ==
    IF ~Truthy(queryText)
    THEN Reply(r, NoTextResponse, lg)
    ELSE Await(r, "aiCall", Append(lg, AiCall(queryText)))

\* Lines 711-737, entered without a deterministic hit.
SemanticResolve(r, q, lg) ==
    IF NeedsResolver(q)
    THEN Await(r, "termQuery", Append(lg, Event(ResolverTable, "call", q.code, 0, <<>>)))
    ELSE SemanticSearch(r, q.text, lg)

\* Lines 681-694: a request arrives and runs to its first await or response.
Receive(r) ==
    /\ pc[r] = "idle"
    /\ \E c \in CodeParams, s \in SystemParams, t \in TextParams :
         LET q == [code |-> c, system |-> s, text |-> t] IN
         /\ query' = [query EXCEPT ![r] = q]
         /\ IF ParametersMissing(q)
            THEN Reply(r, MissingParameters, log[r])
            ELSE IF TakesDeterministicStage(q)
            THEN Await(r, "mapQuery", Append(log[r], Event(MappingTable, "call", q.code, 0, <<>>)))
            ELSE SemanticResolve(r, q, log[r])
    /\ UNCHANGED <<ivars, ovars, mappings, terms>>

\* Variant: code is a variable of the module, not of the invocation, so the
\* rows are those of the code of the request received last.
MapQueryReturns_SharedCode(r) ==
    /\ pc[r] = "mapQuery"
    /\ LET others == {o \in Reqs \ {r} : pc[o] \notin {"closed", "idle"}}
           code   == IF others # {} THEN query[CHOOSE o \in others : TRUE].code
                     ELSE query[r].code
           rows   == MappingQuery(code)
           lg     == Append(log[r], Event(MappingTable, "return", code, 0, rows))
       IN  IF rows # {}
           THEN \E row0 \in rows : Reply(r, DeterministicResponse(row0), lg)
           ELSE SemanticResolve(r, query[r], lg)
    /\ UNCHANGED <<ivars, ovars, mappings, terms, query>>

\* Lines 691-706 and on: the mapping query returns its rows.  The SELECT has
\* no ORDER BY, so rows[0] is any of the matching rows.
MapQueryReturns(r) ==
    /\ pc[r] = "mapQuery"
    /\ LET rows == MappingQuery(query[r].code)
           lg   == Append(log[r], Event(MappingTable, "return", query[r].code, 0, rows))
       IN  IF rows # {}
           THEN \E row0 \in rows : Reply(r, DeterministicResponse(row0), lg)
           ELSE SemanticResolve(r, query[r], lg)
    /\ UNCHANGED <<ivars, ovars, mappings, terms, query>>

\* Variant: a failed mapping query is treated as a miss.
MapQueryFails_Swallowed(r) ==
    /\ pc[r] = "mapQuery"
    /\ \E e \in StoreErrors :
         SemanticResolve(r, query[r],
                         Append(log[r], Event(MappingTable, "throw", query[r].code, 0, e)))
    /\ UNCHANGED <<ivars, ovars, mappings, terms, query>>

\* Lines 758-761: pool.query rejects, the outer catch answers.
MapQueryFails(r) ==
    /\ pc[r] = "mapQuery"
    /\ \E e \in StoreErrors :
         Reply(r, TranslationFailed(e),
               Append(log[r], Event(MappingTable, "throw", query[r].code, 0, e)))
    /\ UNCHANGED <<ivars, ovars, mappings, terms, query>>

\* Lines 716-737: the terminology query returns.
TermQueryReturns(r) ==
    /\ pc[r] = "termQuery"
    /\ LET rows == TermQuery(query[r].code) IN
         SemanticSearch(r, ResolvedText(query[r], rows),
                        Append(log[r], Event(ResolverTable, "return", query[r].code, 0, rows)))
    /\ UNCHANGED <<ivars, ovars, mappings, terms, query>>

TermQueryFails(r) ==
    /\ pc[r] = "termQuery"
    /\ \E e \in StoreErrors :
         Reply(r, TranslationFailed(e),
               Append(log[r], Event(ResolverTable, "throw", query[r].code, 0, e)))
    /\ UNCHANGED <<ivars, ovars, mappings, terms, query>>

\* Variant: the best suggestion for a code is stored as a mapping.
AiCallSettles_Learns(r) ==
    /\ pc[r] = "aiCall"
    /\ \E o \in AiOutcomes :
         /\ Reply(r, AiAnswer(o),
                  Append(log[r], Event(AiService, IF o.kind = "reject" THEN "throw" ELSE "return",
                                       log[r][Len(log[r])].arg, TopK, o)))
         /\ mappings' = IF o.kind = "list" /\ Len(o.suggestions) > 0 /\ Truthy(query[r].code)
                        THEN mappings \cup {MappingRow(query[r].code, o.suggestions[1].code)}
                        ELSE mappings
    /\ UNCHANGED <<ivars, ovars, terms, query>>

\* Variant: a rejected call is posted again.
AiCallSettles_Retry(r) ==
    /\ pc[r] = "aiCall"
    /\ \E o \in AiOutcomes :
         LET lg == Append(log[r], Event(AiService, IF o.kind = "reject" THEN "throw" ELSE "return",
                                        log[r][Len(log[r])].arg, TopK, o))
         IN  IF o.kind = "reject" /\ Len(log[r]) < 6
             THEN Await(r, "aiCall", Append(lg, AiCall(log[r][Len(log[r])].arg)))
             ELSE Reply(r, AiAnswer(o), lg)
    /\ UNCHANGED <<ivars, ovars, mappings, terms, query>>

\* Lines 733-756: axios.post settles.
AiCallSettles(r) ==
    /\ pc[r] = "aiCall"
    /\ \E o \in AiOutcomes :
         Reply(r, AiAnswer(o),
               Append(log[r], Event(AiService, IF o.kind = "reject" THEN "throw" ELSE "return",
                                    log[r][Len(log[r])].arg, TopK, o)))
    /\ UNCHANGED <<ivars, ovars, mappings, terms, query>>

\* The connection of a finished request is reused for a new request.
NextRequest(r) ==
    /\ pc[r] = "done"
    /\ pc'    = [pc EXCEPT ![r] = "idle"]
    /\ query' = [query EXCEPT ![r] = [code |-> Undefined, system |-> Undefined, text |-> Undefined]]
    /\ sent'  = [sent EXCEPT ![r] = <<>>]
    /\ log'   = [log EXCEPT ![r] = <<>>]
    /\ UNCHANGED <<ivars, ovars, mappings, terms>>

-----------------------------------------------------------------------------
(* extractMappingCodes.  A code cell of a CSV row is a JavaScript value;   *)
(* a string is the sequence of its lexemes: words, blanks, parentheses.    *)

Str(lexemes) == [type |-> "string", lexemes |-> lexemes]
NoCell       == [type |-> "undefined", lexemes |-> <<>>]
Null         == [type |-> "null", lexemes |-> <<>>]
Num(digit)   == [type |-> "number", lexemes |-> <<digit>>]

\* !v : undefined, null, the empty string and 0.
Falsy(v) ==
    \/ v.type \in {"undefined", "null"}
    \/ v.type = "string" /\ v.lexemes = <<>>
    \/ v.type = "number" /\ v.lexemes = <<"0">>

UpperCase ==
    {"A", "B", "C", "D", "E", "F", "G", "H", "I", "J", "K", "L", "M",
     "N", "O", "P", "Q", "R", "S", "T", "U", "V", "W", "X", "Y", "Z"}
Digit == {"0", "1", "2", "3", "4", "5", "6", "7", "8", "9"}

\* The characters of the words of the code cells.
Spelling(word) ==
    CASE word = "AAA-1" -> <<"A", "A", "A", "-", "1">>
      [] word = "BB-2"  -> <<"B", "B", "-", "2">>
      [] word = "BB"    -> <<"B", "B">>
      [] word = "SR11"  -> <<"S", "R", "1", "1">>
      [] word = "5A11"  -> <<"5", "A", "1", "1">>
      [] word = "SK2.1Z" -> <<"S", "K", "2", ".", "1", "Z">>
      [] OTHER          -> <<>>

AllIn(s, from, to, class) == \A i \in from..to : s[i] \in class

\* /(^[A-Z]{3}-\d+$)|(^[A-Z]{1,3}$)/
NamastePattern(word) ==
    LET s == Spelling(word)
        n == Len(s)
    IN  \/ n >= 5 /\ AllIn(s, 1, 3, UpperCase) /\ s[4] = "-" /\ AllIn(s, 5, n, Digit)
        \/ n \in 1..3 /\ AllIn(s, 1, n, UpperCase)

\* Variant: /^[A-Z]{1,3}\d+([A-Z])?$/.
IcdPattern_NoFraction(word) ==
    LET s == Spelling(word)
        n == Len(s)
    IN  \E a \in 1..3 : \E b \in 1..n :
            /\ a < b
            /\ AllIn(s, 1, a, UpperCase)
            /\ AllIn(s, a + 1, b, Digit)
            /\ \/ b = n
               \/ b + 1 = n /\ s[n] \in UpperCase

\* /^[A-Z]{1,3}\d+(\.\d+)?([A-Z])?$/ : letters up to a, digits up to b,
\* the optional fraction up to c, the optional letter last.
IcdPattern(word) ==
    LET s == Spelling(word)
        n == Len(s)
    IN  \E a \in 1..3 : \E b \in 1..n : \E c \in b..n :
            /\ a < b
            /\ AllIn(s, 1, a, UpperCase)
            /\ AllIn(s, a + 1, b, Digit)
            /\ \/ c = b
               \/ c >= b + 2 /\ s[b + 1] = "." /\ AllIn(s, b + 2, c, Digit)
            /\ \/ c = n
               \/ c + 1 = n /\ s[n] \in UpperCase

IsWord(lexeme) == lexeme \notin {" ", "(", ")"}

\* replace(/[()]/g, ' ').trim().split(/\s+/).filter(p => p)
Parts(lexemes) == SelectSeq(lexemes, IsWord)

\* Variant: the first part of each kind stays.
LastPart_First(parts, kind) ==
    LET I == {i \in 1..Len(parts) : IcdPattern(parts[i]) = kind}
    IN  IF I = {} THEN Undefined
        ELSE parts[CHOOSE i \in I : \A j \in I : i <= j]

\* for (const part of parts) ...: the last part of each kind stays.
LastPart(parts, kind) ==
    LET I == {i \in 1..Len(parts) : IcdPattern(parts[i]) = kind}
    IN  IF I = {} THEN Undefined
        ELSE parts[CHOOSE i \in I : \A j \in I : j <= i]

\* What a call gives: a pair, or the TypeError of a method call on a
\* value that has no such method.
Returned(namasteCode, icdCode) ==
    [threw |-> FALSE, namasteCode |-> namasteCode, icdCode |-> icdCode]
TypeError == [threw |-> TRUE, namasteCode |-> Undefined, icdCode |-> Undefined]

\* Variant: if (!inputString).
NullInput_FalsyOnly(inputString) == Falsy(inputString)

\* Line 49: !inputString || typeof inputString !== 'string'.
NullInput(inputString) == Falsy(inputString) \/ inputString.type # "string"

\* Variant: every token goes through the loop.
SingleToken_Never(parts) == Len(parts) < 1

\* Line 51: parts.length < 2.
SingleToken(parts) == Len(parts) < 2

extractMappingCodes(inputString) ==
    IF NullInput(inputString) THEN Returned(Undefined, Undefined)
    ELSE IF inputString.type # "string" THEN TypeError
    ELSE LET parts == Parts(inputString.lexemes) IN
         IF SingleToken(parts)
         THEN LET first == IF Len(parts) = 0 THEN Undefined ELSE parts[1] IN
              IF first # Undefined /\ NamastePattern(first)
              THEN Returned(first, Undefined)
              ELSE Returned(OrElse(first, Undefined), Undefined)
         ELSE Returned(LastPart(parts, FALSE), LastPart(parts, TRUE))

-----------------------------------------------------------------------------
(* extractMappingCodes called on its own.                                  *)

InputWords == {"AAA-1", "BB", "SR11", "SK2.1Z"}
Lexemes    == InputWords \cup {" ", "(", ")"}

MaxLexemes == 5

\* Two words of a string are apart: lexemes that touch are one word.
Spaced(lexemes) ==
    \A i \in 1..(Len(lexemes) - 1) : ~(IsWord(lexemes[i]) /\ IsWord(lexemes[i + 1]))

Inputs ==
    {Str(l) : l \in {k \in SeqsUpTo(Lexemes, MaxLexemes) : Spaced(k)}}
    \cup {NoCell, Null, Num("0"), Num("7")}

NotCalled == [called |-> FALSE, threw |-> FALSE, namasteCode |-> Undefined, icdCode |-> Undefined]

Called(result) ==
    [called |-> TRUE, threw |-> result.threw,
     namasteCode |-> result.namasteCode, icdCode |-> result.icdCode]

\* Lines 48-56: one call.
Extract ==
    /\ ~extracted.called
    /\ extracted' = Called(extractMappingCodes(cell))
    /\ UNCHANGED <<mappings, terms, tvars, ivars, mvars, cell>>

\* No call of extractMappingCodes on its own is made.
NoExtraction ==
    /\ cell = NoCell
    /\ extracted = NotCalled

-----------------------------------------------------------------------------
(* generateCodeSystem: its inputs.                                         *)

AyurvedaConfig == [tableName |-> AyurvedaTable, codeSystemId |-> "namaste-ayurveda"]
SiddhaConfig   == [tableName |-> SiddhaTable, codeSystemId |-> "namaste-siddha"]
Configs        == {AyurvedaConfig, SiddhaConfig}

\* `https://www.ayush-bridge.org/fhir/CodeSystem/${codeSystemId}`
SourceSystem(cfg) ==
    IF cfg.codeSystemId = "namaste-ayurveda" THEN AyurvedaUri ELSE SiddhaUri

\* A row of a CSV file: the cells the loop reads.
CsvRow(code, display, long, short, branches) ==
    [code |-> code, display |-> display, Long_definition |-> long,
     Short_definition |-> short, Ontology_branches |-> branches]

FeverRow    == CsvRow(Str(<<"SR11", " ", "(", "AAA-1", ")">>), "Jvara",
                      "Fever of humoral origin", "Fever", "Fevers")
RenamedRow  == CsvRow(Str(<<"AAA-1">>), "Jwara", "", "Fever", Undefined)
UntitledRow == CsvRow(Str(<<"BB-2", " ", "SK2.1Z">>), "", "Cough", Undefined, "Coughs")
BlankRow    == CsvRow(Str(<<>>), "Kasa", "Cough of humoral origin", "", "Coughs")
DigitRow    == CsvRow(Str(<<"5A11", " ", "(", "BB-2", ")">>), "Kasa", Undefined, "", "Coughs")
RemappedRow == CsvRow(Str(<<"SK2.1Z", " ", "(", "AAA-1", ")">>), "Jvara",
                      "Fever of humoral origin", "Fever", "Fevers")

CsvRowSet == {FeverRow, RenamedRow, UntitledRow, BlankRow, DigitRow, RemappedRow}

MaxCsvRows == 2

CsvFiles == SeqsUpTo(CsvRowSet, MaxCsvRows)

\* The Siddha file names the code of FeverRow in its own vocabulary.
SiddhaFile ==
    <<CsvRow(Str(<<"AAA-1", " ", "SR11">>), "Suram", "Fever in Siddha", "", Undefined)>>

NoFiles == [t \in TermTables |-> <<>>]

\* The two rows of one code, the second renaming the first; the Siddha
\* file beside them.
RenamingFiles ==
    [t \in TermTables |-> IF t = AyurvedaTable THEN <<FeverRow, RenamedRow>> ELSE SiddhaFile]

\* One row in the Ayurveda file, none in the Siddha file.
OneRowFiles == [t \in TermTables |-> IF t = AyurvedaTable THEN <<FeverRow>> ELSE <<>>]

-----------------------------------------------------------------------------
(* generateCodeSystem: the writes of a batch.                              *)

\* A client of the pool: whether the run was given it, whether the run
\* holds it, and how often the run released it.
NoConn      == [acquired |-> FALSE, held |-> FALSE, releases |-> 0]
Acquired(c) == [acquired |-> TRUE, held |-> TRUE, releases |-> c.releases]
Released(c) == [acquired |-> c.acquired, held |-> FALSE, releases |-> c.releases + 1]

EmptyTables == [m |-> {}, t |-> [t \in TermTables |-> {}]]
NoTx        == [open |-> FALSE, m |-> {}, t |-> [t \in TermTables |-> {}]]

SamePair(x, y) == x.source_code = y.source_code /\ x.target_code = y.target_code

\* Variant: ON CONFLICT (source_code, target_code) DO UPDATE.
InsertMapping_Update(rows, row) == {x \in rows : ~SamePair(x, row)} \cup {row}

\* Line 71 on a table with UNIQUE(source_code, target_code):
\* INSERT ... ON CONFLICT DO NOTHING.
InsertMapping(rows, row) ==
    IF \E x \in rows : SamePair(x, row) THEN rows ELSE rows \cup {row}

\* Variant: ON CONFLICT (code) DO NOTHING.
UpsertTerm_Ignore(rows, row) ==
    IF \E x \in rows : x.code = row.code THEN rows ELSE rows \cup {row}

\* Line 70 on a table with code UNIQUE: INSERT ... ON CONFLICT (code)
\* DO UPDATE SET display, definition, broader_term.
UpsertTerm(rows, row) == {x \in rows : x.code # row.code} \cup {row}

\* Variant: if (namasteCode).
WritesTerm_AnyDisplay(codes, row) == Truthy(codes.namasteCode)

\* Line 70: if (namasteCode && display).
WritesTerm(codes, row) == Truthy(codes.namasteCode) /\ Truthy(row.display)

\* Line 71: if (namasteCode && icdCode).
WritesMapping(codes) == Truthy(codes.namasteCode) /\ Truthy(codes.icdCode)

Write(table, row) == [table |-> table, row |-> row]

\* Lines 68-71: the queries one turn of the loop awaits.
RowWrites(cfg, row) ==
    LET codes == extractMappingCodes(row.code)
        definition == OrElse(row.Long_definition, row.Short_definition)
    IN  (IF WritesTerm(codes, row)
         THEN <<Write(cfg.tableName,
                      TermEntry(codes.namasteCode, row.display, definition,
                                row.Ontology_branches))>>
         ELSE <<>>)
        \o
        (IF WritesMapping(codes)
         THEN <<Write(MappingTable,
                      [source_system |-> SourceSystem(cfg), source_code |-> codes.namasteCode,
                       target_system |-> IcdUri, target_code |-> codes.icdCode])>>
         ELSE <<>>)

\* for (const row of csvRows): the queries of the batch, in order.
RECURSIVE Writes(_, _)
Writes(cfg, rows) ==
    IF rows = <<>> THEN <<>> ELSE RowWrites(cfg, Head(rows)) \o Writes(cfg, Tail(rows))

\* The tables after the store ran a write.
Written(tables, w) ==
    IF w.table = MappingTable
    THEN [tables EXCEPT !.m = InsertMapping(@, w.row)]
    ELSE [tables EXCEPT !.t[w.table] = UpsertTerm(@, w.row)]

\* The tables after the store ran the first n writes.
RECURSIVE WrittenAll(_, _, _)
WrittenAll(tables, ws, n) ==
    IF n = 0 THEN tables ELSE Written(WrittenAll(tables, ws, n - 1), ws[n])

Batch == Writes(config, csvRows)

\* INSERT reports the rows it wrote: none when ON CONFLICT did nothing.
RowCount(old, new) == IF old = new THEN 0 ELSE 1

IEvent(op, ev, arg, result) == [op |-> op, ev |-> ev, arg |-> arg, result |-> result]

-----------------------------------------------------------------------------
(* generateCodeSystem: its steps, each the code between two awaits.  One   *)
(* run is in flight at a time.                                             *)

Committed == [m |-> mappings, t |-> terms]

\* The run throws to its endpoint, which answers 500.
Throws(op) ==
    /\ ipc'  = "idle"
    /\ ilog' = Append(ilog, IEvent(op, "throw", Undefined, 0))

\* Lines 177-237, 60-61: GET /codesystem/... calls generateCodeSystem.
StartIngestion ==
    /\ ipc = "idle"
    /\ \E cfg \in Configs : config' = cfg
    /\ ipc' = "setup"
    /\ csvRows' = <<>>
    /\ step' = 0
    /\ ilog' = <<>>
    /\ conn' = NoConn
    /\ UNCHANGED <<mappings, terms, tvars, ovars, files, tx, before, ran>>

\* Lines 61-65: the tables exist and the file is read.
SetupReturns ==
    /\ ipc = "setup"
    /\ csvRows' = files[config.tableName]
    /\ ipc' = "connect"
    /\ UNCHANGED <<mappings, terms, tvars, ovars, files, conn, config, step, tx, before, ran, ilog>>

\* Lines 61-64: a CREATE TABLE or the file read rejects.
SetupFails ==
    /\ ipc = "setup"
    /\ Throws("setup")
    /\ UNCHANGED <<mappings, terms, tvars, ovars, files, conn, config, csvRows, step, tx, before, ran>>

\* Lines 65-67: pool.connect() gives a client; BEGIN is sent.
ConnectReturns ==
    /\ ipc = "connect"
    /\ ipc' = "begin"
    /\ conn' = Acquired(conn)
    /\ UNCHANGED <<mappings, terms, tvars, ovars, files, config, csvRows, step, tx, before, ran, ilog>>

\* Line 65: pool.connect() rejects, outside the try.
ConnectFails ==
    /\ ipc = "connect"
    /\ Throws("connect")
    /\ UNCHANGED <<mappings, terms, tvars, ovars, files, conn, config, csvRows, step, tx, before, ran>>

\* Lines 67-72: BEGIN returns; the loop runs to its first query, or past
\* its end to COMMIT.
BeginReturns ==
    /\ ipc = "begin"
    /\ tx' = [open |-> TRUE, m |-> mappings, t |-> terms]
    /\ before' = Committed
    /\ step' = 1
    /\ ipc' = IF Batch = <<>> THEN "commit" ELSE "write"
    /\ ilog' = Append(ilog, IEvent("BEGIN", "return", Undefined, 0))
    /\ UNCHANGED <<mappings, terms, tvars, ovars, files, conn, config, csvRows, ran>>

\* Lines 67, 73: BEGIN rejects; the catch sends ROLLBACK.
BeginFails ==
    /\ ipc = "begin"
    /\ ipc' = "rollback"
    /\ ilog' = Append(ilog, IEvent("BEGIN", "throw", Undefined, 0))
    /\ UNCHANGED <<mappings, terms, tvars, ovars, files, conn, config, csvRows, step, tx, before, ran>>

\* The loop goes on after the write it is at.
Proceed ==
    /\ step' = step + 1
    /\ ipc' = IF step = Len(Batch) THEN "commit" ELSE "write"

\* Variant: the row is written with pool.query, outside the transaction.
TermUpsertReturns_Autocommit ==
    /\ ipc = "write"
    /\ Batch[step].table \in TermTables
    /\ LET w == Batch[step]
           new == Written([m |-> tx.m, t |-> tx.t], w)
       IN  /\ tx' = [open |-> TRUE, m |-> new.m, t |-> new.t]
           /\ terms' = Written(Committed, w).t
           /\ ilog' = Append(ilog, IEvent(w.table, "return", w.row, 1))
    /\ Proceed
    /\ UNCHANGED <<mappings, tvars, ovars, files, conn, config, csvRows, before, ran>>

\* Lines 70-72: the terminology upsert returns.
TermUpsertReturns ==
    /\ ipc = "write"
    /\ Batch[step].table \in TermTables
    /\ LET w == Batch[step]
           new == Written([m |-> tx.m, t |-> tx.t], w)
       IN  /\ tx' = [open |-> TRUE, m |-> new.m, t |-> new.t]
           /\ ilog' = Append(ilog, IEvent(w.table, "return", w.row, 1))
    /\ Proceed
    /\ UNCHANGED <<mappings, terms, tvars, ovars, files, conn, config, csvRows, before, ran>>

\* Lines 71-72: the mapping insert returns.
MappingInsertReturns ==
    /\ ipc = "write"
    /\ Batch[step].table = MappingTable
    /\ LET w == Batch[step]
           new == Written([m |-> tx.m, t |-> tx.t], w)
       IN  /\ tx' = [open |-> TRUE, m |-> new.m, t |-> new.t]
           /\ ilog' = Append(ilog, IEvent(w.table, "return", w.row, RowCount(tx.m, new.m)))
    /\ Proceed
    /\ UNCHANGED <<mappings, terms, tvars, ovars, files, conn, config, csvRows, before, ran>>

\* Lines 70-71, 73: a row write rejects; the catch sends ROLLBACK.
RowWriteFails ==
    /\ ipc = "write"
    /\ ipc' = "rollback"
    /\ ilog' = Append(ilog, IEvent(Batch[step].table, "throw", Batch[step].row, 0))
    /\ UNCHANGED <<mappings, terms, tvars, ovars, files, conn, config, csvRows, step, tx, before, ran>>

\* Variant: the client is released in the catch only.
CommitReturns_NoRelease ==
    /\ ipc = "commit"
    /\ mappings' = tx.m
    /\ terms' = tx.t
    /\ tx' = NoTx
    /\ ran' = ran \cup {config}
    /\ ipc' = "select"
    /\ ilog' = Append(ilog, IEvent("COMMIT", "return", Undefined, 0))
    /\ conn' = conn
    /\ UNCHANGED <<tvars, ovars, files, config, csvRows, step, before>>

\* Lines 72-74: COMMIT returns; the client is released and the SELECT of
\* the code system is sent.
CommitReturns ==
    /\ ipc = "commit"
    /\ mappings' = tx.m
    /\ terms' = tx.t
    /\ tx' = NoTx
    /\ ran' = ran \cup {config}
    /\ ipc' = "select"
    /\ ilog' = Append(ilog, IEvent("COMMIT", "return", Undefined, 0))
    /\ conn' = Released(conn)
    /\ UNCHANGED <<tvars, ovars, files, config, csvRows, step, before>>

\* Lines 72-73: COMMIT rejects, the store having committed (the answer
\* was lost) or not; the catch sends ROLLBACK.
CommitFails ==
    /\ ipc = "commit"
    /\ \/ /\ mappings' = tx.m
          /\ terms' = tx.t
          /\ tx' = NoTx
          /\ ran' = ran \cup {config}
       \/ UNCHANGED <<mappings, terms, tx, ran>>
    /\ ipc' = "rollback"
    /\ ilog' = Append(ilog, IEvent("COMMIT", "throw", Undefined, 0))
    /\ UNCHANGED <<tvars, ovars, files, conn, config, csvRows, step, before>>

\* Variant: the catch sends COMMIT.
RollbackSettles_Keeps ==
    /\ ipc = "rollback"
    /\ mappings' = IF tx.open THEN tx.m ELSE mappings
    /\ terms' = IF tx.open THEN tx.t ELSE terms
    /\ tx' = NoTx
    /\ \E ev \in {"return", "throw"} : ilog' = Append(ilog, IEvent("ROLLBACK", ev, Undefined, 0))
    /\ ipc' = "idle"
    /\ conn' = Released(conn)
    /\ UNCHANGED <<tvars, ovars, files, config, csvRows, step, before, ran>>

\* Line 73: ROLLBACK settles, the transaction is over either way; the
\* client is released and the run throws.
RollbackSettles ==
    /\ ipc = "rollback"
    /\ tx' = NoTx
    /\ \E ev \in {"return", "throw"} : ilog' = Append(ilog, IEvent("ROLLBACK", ev, Undefined, 0))
    /\ ipc' = "idle"
    /\ conn' = Released(conn)
    /\ UNCHANGED <<mappings, terms, tvars, ovars, files, config, csvRows, step, before, ran>>

\* Lines 74 and on: the SELECT settles and the endpoint answers.
SelectSettles ==
    /\ ipc = "select"
    /\ \E ev \in {"return", "throw"} : ilog' = Append(ilog, IEvent("SELECT", ev, Undefined, 0))
    /\ ipc' = "idle"
    /\ UNCHANGED <<mappings, terms, tvars, ovars, files, conn, config, csvRows, step, tx, before, ran>>

-----------------------------------------------------------------------------
(* POST /ingest/all-knowledge: the master ingestion of the SAT tables and  *)
(* of icd11_codes_master, which also registers every ICD row with the AI   *)
(* service.  One run is in flight at a time.                               *)

SatTables ==
    <<"sat_a_fundamental", "sat_b_anatomy", "sat_c_diagnosis", "sat_d_diagnosis_alt",
      "sat_f_pharma", "sat_g_pharma_prep", "sat_h_food_prep", "sat_i_treatment",
      "sat_j_preventive">>

\* A row of icd-11.csv: the cells the loop reads.
IcdRow(code, title) == [Code |-> code, Title |-> title]

\* title.replace(/^-+\s*/, '').trim()
CleanTitle(title) == IF title = "- Fever" THEN "Fever" ELSE title

\* Lines 312-321: the rows the loop writes, if (code && title), cleaned.
IcdWritten(row) == Truthy(row.Code) /\ Truthy(row.Title)

RECURSIVE IcdWrites(_)
IcdWrites(rows) ==
    IF rows = <<>> THEN <<>>
    ELSE (IF IcdWritten(Head(rows))
          THEN <<[code |-> Head(rows).Code, title |-> CleanTitle(Head(rows).Title)]>>
          ELSE <<>>) \o IcdWrites(Tail(rows))

IcdBatch == IcdWrites(icdRows)

\* Line 323: INSERT ... ON CONFLICT (code) DO UPDATE SET title, ...
UpsertIcd(rows, row) == {x \in rows : x.code # row.code} \cup {row}

\* A file of two codes and a row without a code.
TwoCodeIcdFile ==
    <<IcdRow("SR11", "- Fever"), IcdRow("", "Chapter 1"), IcdRow("SK2.1Z", "Cough")>>

NoMasterTx  == [open |-> FALSE, sat |-> {}, icd |-> {}]
EmptyMaster == [sat |-> {}, icd |-> {}]

\* Lines 270, 275: pool.connect() is called.
MasterStart ==
    /\ mpc = "idle"
    /\ mpc' = "connect"
    /\ mconn' = NoConn
    /\ mstep' = 0
    /\ icdRows' = <<>>
    /\ UNCHANGED <<mappings, terms, tvars, ivars, xvars, icdFile, mtx, master, embeddings>>

\* Lines 270-274: the client is given; BEGIN is sent.
MasterConnectReturns ==
    /\ mpc = "connect"
    /\ mpc' = "begin"
    /\ mconn' = Acquired(mconn)
    /\ UNCHANGED <<mappings, terms, tvars, ivars, xvars, icdFile, mstep, icdRows, mtx, master,
                   embeddings>>

\* Line 270: pool.connect() rejects, outside the try.
MasterConnectFails ==
    /\ mpc = "connect"
    /\ mpc' = "idle"
    /\ UNCHANGED <<mappings, terms, tvars, ivars, xvars, icdFile, mstep, icdRows, mtx, master,
                   embeddings, mconn>>

\* Lines 274-291: BEGIN returns; the first SAT table is ingested.
MasterBeginReturns ==
    /\ mpc = "begin"
    /\ mtx' = [open |-> TRUE, sat |-> master.sat, icd |-> master.icd]
    /\ mstep' = 1
    /\ mpc' = "sat"
    /\ UNCHANGED <<mappings, terms, tvars, ivars, xvars, icdFile, icdRows, master, embeddings,
                   mconn>>

\* The catch of line 341 sends ROLLBACK.
MasterCatches ==
    /\ mpc' = "rollback"
    /\ UNCHANGED <<mappings, terms, tvars, ivars, xvars, icdFile, mstep, icdRows, mtx, master,
                   embeddings, mconn>>

\* Lines 274, 341: BEGIN rejects.
MasterBeginFails ==
    /\ mpc = "begin"
    /\ MasterCatches

\* Lines 239-252, 289-298: ingestSatTable returns for one table; the next
\* is ingested, or the ICD table is created and icd-11.csv read.
SatTableReturns ==
    /\ mpc = "sat"
    /\ mtx' = [mtx EXCEPT !.sat = @ \cup {SatTables[mstep]}]
    /\ IF mstep = Len(SatTables)
       THEN mpc' = "icdSetup" /\ mstep' = 0
       ELSE mpc' = "sat" /\ mstep' = mstep + 1
    /\ UNCHANGED <<mappings, terms, tvars, ivars, xvars, icdFile, icdRows, master, embeddings,
                   mconn>>

\* Lines 239-252: a query or the file read of ingestSatTable rejects.
SatTableFails ==
    /\ mpc = "sat"
    /\ MasterCatches

\* Lines 298-312: the table exists and the file is read; the loop runs to
\* its first insert, or past its end to COMMIT.
IcdSetupReturns ==
    /\ mpc = "icdSetup"
    /\ icdRows' = icdFile
    /\ mstep' = 1
    /\ mpc' = IF IcdWrites(icdFile) = <<>> THEN "commit" ELSE "insert"
    /\ UNCHANGED <<mappings, terms, tvars, ivars, xvars, icdFile, mtx, master, embeddings, mconn>>

\* Lines 298-308: CREATE TABLE rejects, the file is missing or unreadable.
IcdSetupFails ==
    /\ mpc = "icdSetup"
    /\ MasterCatches

\* Lines 323-327: the insert returns; the row is posted to /add-embedding.
IcdInsertReturns ==
    /\ mpc = "insert"
    /\ mtx' = [mtx EXCEPT !.icd = UpsertIcd(@, IcdBatch[mstep])]
    /\ mpc' = "embed"
    /\ UNCHANGED <<mappings, terms, tvars, ivars, xvars, icdFile, mstep, icdRows, master,
                   embeddings, mconn>>

\* Line 323: the insert rejects.
IcdInsertFails ==
    /\ mpc = "insert"
    /\ MasterCatches

\* Lines 326-338: axios.post settles: the service registered the code, or
\* the call failed and the failure is logged; the loop goes on.
EmbeddingSettles ==
    /\ mpc = "embed"
    /\ \/ embeddings' = embeddings \cup {IcdBatch[mstep].code}
       \/ embeddings' = embeddings
    /\ mstep' = mstep + 1
    /\ mpc' = IF mstep = Len(IcdBatch) THEN "commit" ELSE "insert"
    /\ UNCHANGED <<mappings, terms, tvars, ivars, xvars, icdFile, icdRows, mtx, master, mconn>>

\* Lines 337-339, 345-347: COMMIT returns, the endpoint answers 200 and
\* the client is released.
MasterCommitReturns ==
    /\ mpc = "commit"
    /\ master' = [sat |-> mtx.sat, icd |-> mtx.icd]
    /\ mtx' = NoMasterTx
    /\ mconn' = Released(mconn)
    /\ mpc' = "idle"
    /\ UNCHANGED <<mappings, terms, tvars, ivars, xvars, icdFile, mstep, icdRows, embeddings>>

\* Lines 337, 341: COMMIT rejects, the store having committed or not.
MasterCommitFails ==
    /\ mpc = "commit"
    /\ \/ /\ master' = [sat |-> mtx.sat, icd |-> mtx.icd]
          /\ mtx' = NoMasterTx
       \/ UNCHANGED <<master, mtx>>
    /\ mpc' = "rollback"
    /\ UNCHANGED <<mappings, terms, tvars, ivars, xvars, icdFile, mstep, icdRows, embeddings,
                   mconn>>

\* Lines 341-347: ROLLBACK settles, the transaction is over either way;
\* the endpoint answers 500, or throws, and the client is released.
MasterRollbackSettles ==
    /\ mpc = "rollback"
    /\ mtx' = NoMasterTx
    /\ mconn' = Released(mconn)
    /\ mpc' = "idle"
    /\ UNCHANGED <<mappings, terms, tvars, ivars, xvars, icdFile, mstep, icdRows, master,
                   embeddings>>

\* No run of the master ingestion has been made.
NoMaster(f) ==
    /\ icdFile = f
    /\ mpc = "idle"
    /\ mstep = 0
    /\ icdRows = <<>>
    /\ mtx = NoMasterTx
    /\ master = EmptyMaster
    /\ embeddings = {}
    /\ mconn = NoConn

\* No run of generateCodeSystem has been made.
NoIngestion(f) ==
    /\ files = f
    /\ ipc = "idle"
    /\ config = AyurvedaConfig
    /\ csvRows = <<>>
    /\ step = 0
    /\ tx = NoTx
    /\ before = EmptyTables
    /\ ran = {}
    /\ ilog = <<>>
    /\ conn = NoConn

\* The store holds what earlier ingestions left in it; one client is
\* connected, or two are.
Init ==
    /\ \/ /\ \E st \in StoreStates :
                /\ mappings = st.m
                /\ terms = [t \in TermTables |-> IF t = AyurvedaTable THEN st.a ELSE st.s]
          /\ pc = [r \in Reqs |-> IF r = "r1" THEN "idle" ELSE "closed"]
       \/ /\ \E st \in ConcurrentStores :
                /\ mappings = st.m
                /\ terms = [t \in TermTables |-> IF t = AyurvedaTable THEN st.a ELSE st.s]
          /\ pc = [r \in Reqs |-> "idle"]
    /\ query = [r \in Reqs |-> [code |-> Undefined, system |-> Undefined, text |-> Undefined]]
    /\ sent  = [r \in Reqs |-> <<>>]
    /\ log   = [r \in Reqs |-> <<>>]
    /\ NoIngestion(NoFiles)
    /\ NoExtraction
    /\ NoMaster(<<>>)

Next ==
    \E r \in Reqs :
        \/ Receive(r)
        \/ MapQueryReturns(r)
        \/ MapQueryFails(r)
        \/ TermQueryReturns(r)
        \/ TermQueryFails(r)
        \/ AiCallSettles(r)
        \/ NextRequest(r)

Spec == Init /\ [][Next]_vars

\* Two clients, and every pool.query and axios.post that is awaited
\* settles: it returns or it rejects.
LiveStores == {st \in ConcurrentStores : st.s # {}}

InitLive ==
    /\ \E st \in LiveStores :
          /\ mappings = st.m
          /\ terms = [t \in TermTables |-> IF t = AyurvedaTable THEN st.a ELSE st.s]
    /\ pc = [r \in Reqs |-> "idle"]
    /\ query = [r \in Reqs |-> [code |-> Undefined, system |-> Undefined, text |-> Undefined]]
    /\ sent  = [r \in Reqs |-> <<>>]
    /\ log   = [r \in Reqs |-> <<>>]
    /\ NoIngestion(NoFiles)
    /\ NoExtraction
    /\ NoMaster(<<>>)

Settles(r) ==
    /\ WF_vars(MapQueryReturns(r) \/ MapQueryFails(r))
    /\ WF_vars(TermQueryReturns(r) \/ TermQueryFails(r))
    /\ WF_vars(AiCallSettles(r))

SpecLive == InitLive /\ [][Next]_vars /\ \A r \in Reqs : Settles(r)

\* The runs of generateCodeSystem on a new database, no client connected.
InitIngest ==
    /\ mappings = {}
    /\ terms = [t \in TermTables |-> {}]
    /\ pc = [r \in Reqs |-> "closed"]
    /\ query = [r \in Reqs |-> [code |-> Undefined, system |-> Undefined, text |-> Undefined]]
    /\ sent  = [r \in Reqs |-> <<>>]
    /\ log   = [r \in Reqs |-> <<>>]
    /\ \E f \in CsvFiles :
          NoIngestion([t \in TermTables |-> IF t = AyurvedaTable THEN f ELSE SiddhaFile])
    /\ NoExtraction
    /\ NoMaster(<<>>)

NextIngest ==
    \/ StartIngestion
    \/ SetupReturns
    \/ SetupFails
    \/ ConnectReturns
    \/ ConnectFails
    \/ BeginReturns
    \/ BeginFails
    \/ TermUpsertReturns
    \/ MappingInsertReturns
    \/ RowWriteFails
    \/ CommitReturns
    \/ CommitFails
    \/ RollbackSettles
    \/ SelectSettles

SpecIngest == InitIngest /\ [][NextIngest]_vars

\* One client translates while generateCodeSystem runs.
InitConcurrent ==
    /\ mappings = {}
    /\ terms = [t \in TermTables |-> {}]
    /\ pc = [r \in Reqs |-> IF r = "r1" THEN "idle" ELSE "closed"]
    /\ query = [r \in Reqs |-> [code |-> Undefined, system |-> Undefined, text |-> Undefined]]
    /\ sent  = [r \in Reqs |-> <<>>]
    /\ log   = [r \in Reqs |-> <<>>]
    /\ NoIngestion(RenamingFiles)
    /\ NoExtraction
    /\ NoMaster(<<>>)

NextConcurrent == Next \/ NextIngest

SpecConcurrent == InitConcurrent /\ [][NextConcurrent]_vars

\* The two ingestions, each run again and again, on a new database.
InitRuns ==
    /\ mappings = {}
    /\ terms = [t \in TermTables |-> {}]
    /\ pc = [r \in Reqs |-> "closed"]
    /\ query = [r \in Reqs |-> [code |-> Undefined, system |-> Undefined, text |-> Undefined]]
    /\ sent  = [r \in Reqs |-> <<>>]
    /\ log   = [r \in Reqs |-> <<>>]
    /\ NoIngestion(OneRowFiles)
    /\ NoExtraction
    /\ \E f \in {<<>>, TwoCodeIcdFile} : NoMaster(f)

NextMaster ==
    \/ MasterStart
    \/ MasterConnectReturns
    \/ MasterConnectFails
    \/ MasterBeginReturns
    \/ MasterBeginFails
    \/ SatTableReturns
    \/ SatTableFails
    \/ IcdSetupReturns
    \/ IcdSetupFails
    \/ IcdInsertReturns
    \/ IcdInsertFails
    \/ EmbeddingSettles
    \/ MasterCommitReturns
    \/ MasterCommitFails
    \/ MasterRollbackSettles

NextRuns == NextIngest \/ NextMaster

SpecRuns == InitRuns /\ [][NextRuns]_vars

\* extractMappingCodes called once on each value of Inputs.
InitExtract ==
    /\ mappings = {}
    /\ terms = [t \in TermTables |-> {}]
    /\ pc = [r \in Reqs |-> "closed"]
    /\ query = [r \in Reqs |-> [code |-> Undefined, system |-> Undefined, text |-> Undefined]]
    /\ sent  = [r \in Reqs |-> <<>>]
    /\ log   = [r \in Reqs |-> <<>>]
    /\ NoIngestion(NoFiles)
    /\ cell \in Inputs
    /\ extracted = NotCalled
    /\ NoMaster(<<>>)

NextExtract == Extract

SpecExtract == InitExtract /\ [][NextExtract]_vars

-----------------------------------------------------------------------------
(* Vocabulary of the properties.                                           *)

Started(r) == pc[r] \notin {"closed", "idle"}
Done(r)    == pc[r] = "done"

\* Positions in log[r] of the events ev of op.
Events(r, op, ev) == {i \in 1..Len(log[r]) : log[r][i].op = op /\ log[r][i].ev = ev}

AiInvoked(r) == Events(r, AiService, "call") # {}

\* A store lookup of r failed (StoreUnavailable).
StoreThrew(r) == \E i \in 1..Len(log[r]) : log[r][i].ev = "throw" /\ log[r][i].op # AiService

\* The response of a finished request.
Response(r) == sent[r][1]

ErrorEnvelope(resp) ==
    /\ "error" \in DOMAIN resp.body
    /\ "result" \notin DOMAIN resp.body

NegativeResult(resp) ==
    /\ resp.status = 200
    /\ "result" \in DOMAIN resp.body
    /\ resp.body.result = FALSE
    /\ "message" \in DOMAIN resp.body
    /\ "translatedCode" \notin DOMAIN resp.body

PositiveResult(resp) ==
    /\ resp.status = 200
    /\ "result" \in DOMAIN resp.body
    /\ resp.body.result = TRUE

NamasteSystem(system) == Truthy(system) /\ Includes(system, "namaste")

StoredTargets(code) == {row.target_code : row \in {x \in mappings : x.source_code = code}}

HasEntry(code) == \E t \in TermTables : \E row \in terms[t] : row.code = code

-----------------------------------------------------------------------------
(* C1.  A request with a code and a NAMASTE system, for whose code the     *)
(* mapping table holds a row, never invokes the semantic search, whether   *)
(* or not text was supplied, and (its mapping lookup not having failed)    *)
(* ends with the single response result=true, method "deterministic",      *)
(* confidence 1.0 and translatedCode one of the stored target codes of     *)
(* that code.                                                              *)
C1_DeterministicPriority ==
    \A r \in Reqs :
        (/\ Started(r)
         /\ Truthy(query[r].code)
         /\ NamasteSystem(query[r].system)
         /\ StoredTargets(query[r].code) # {})
        => /\ ~AiInvoked(r)
           /\ (Done(r) /\ ~StoreThrew(r)) =>
                /\ Len(sent[r]) = 1
                /\ Response(r).status = 200
                /\ "result" \in DOMAIN Response(r).body
                /\ Response(r).body.result = TRUE
                /\ Response(r).body.method = "deterministic"
                /\ Response(r).body.confidence = ScoreOne
                /\ Response(r).body.translatedCode \in StoredTargets(query[r].code)

C1_Witness ==
    \E r \in Reqs :
        /\ Done(r)
        /\ Truthy(query[r].code) /\ NamasteSystem(query[r].system)
        /\ Truthy(query[r].text)
        /\ Cardinality(StoredTargets(query[r].code)) = 2
        /\ Len(sent[r]) = 1
        /\ Response(r).status = 200
        /\ Response(r).body.result = TRUE
        /\ Response(r).body.translatedCode = "SK2.1Z"

(* C2.  A finished request that supplied text, for whose code no mapping   *)
(* is stored, and whose store lookups did not fail, has invoked the        *)
(* semantic search exactly once, with the supplied text as query; on a     *)
(* non-empty list the response carries the code and the score of the       *)
(* first candidate.                                                        *)
C2_FallbackRelaysTopResult ==
    \A r \in Reqs :
        (/\ Done(r)
         /\ Truthy(query[r].text)
         /\ StoredTargets(query[r].code) = {}
         /\ ~StoreThrew(r))
        => /\ Cardinality(Events(r, AiService, "call")) = 1
           /\ \A i \in Events(r, AiService, "call") : log[r][i].arg = query[r].text
           /\ \A i \in Events(r, AiService, "return") :
                LET o == log[r][i].result IN
                (o.kind = "list" /\ Len(o.suggestions) > 0)
                => /\ Len(sent[r]) = 1
                   /\ Response(r).status = 200
                   /\ Response(r).body.result = TRUE
                   /\ Response(r).body.translatedCode = o.suggestions[1].code
                   /\ Response(r).body.confidence = o.suggestions[1].score

C2_Witness ==
    \E r \in Reqs :
        /\ Done(r)
        /\ Truthy(query[r].code) /\ NamasteSystem(query[r].system)
        /\ Truthy(query[r].text)
        /\ StoredTargets(query[r].code) = {}
        /\ \E i \in Events(r, AiService, "return") :
             /\ log[r][i].result.kind = "list"
             /\ Len(log[r][i].result.suggestions) = 2
             /\ log[r][i].result.suggestions[1].score < log[r][i].result.suggestions[2].score
        /\ Response(r).body.translatedCode = "SR11"

(* C3.  When the semantic search call of a request fails (axios.post       *)
(* rejects: network error or non-2xx status), the request ends with the    *)
(* single response {error, details} of status 5xx, not with a result.      *)
C3_SemanticFailureIsError ==
    \A r \in Reqs :
        Events(r, AiService, "throw") # {}
        => /\ Done(r)
           /\ Len(sent[r]) = 1
           /\ Response(r).status >= 500 /\ Response(r).status <= 599
           /\ ErrorEnvelope(Response(r))
           /\ "details" \in DOMAIN Response(r).body

C3_Witness ==
    \E r \in Reqs :
        /\ Events(r, AiService, "throw") # {}
        /\ Done(r)
        /\ Response(r).status = 500

(* C4.  A 2xx answer of the semantic search that carries no candidate      *)
(* list (no "suggestions" in the body, or no body) ends the request with   *)
(* a 5xx error envelope, not with a {result:false} response.               *)
C4_MalformedAnswerIsError ==
    \A r \in Reqs :
        \A i \in Events(r, AiService, "return") :
            log[r][i].result.kind \in {"noList", "nullBody"}
            => /\ Done(r)
               /\ Response(r).status >= 500
               /\ ErrorEnvelope(Response(r))

(* C5.  A request with a code and no text, for whose code there is no      *)
(* mapping and no terminology entry, never invokes the semantic search     *)
(* and (its lookups not having failed) ends with a 200 response            *)
(* result=false carrying a message.                                        *)
C5_NotFoundWithoutText ==
    \A r \in Reqs :
        (/\ Started(r)
         /\ Truthy(query[r].code)
         /\ ~Truthy(query[r].text)
         /\ StoredTargets(query[r].code) = {}
         /\ ~HasEntry(query[r].code))
        => /\ ~AiInvoked(r)
           /\ (Done(r) /\ ~StoreThrew(r)) =>
                /\ Len(sent[r]) = 1
                /\ NegativeResult(Response(r))

C5_Witness ==
    \E r \in Reqs :
        /\ Done(r) /\ ~StoreThrew(r)
        /\ Truthy(query[r].code) /\ NamasteSystem(query[r].system)
        /\ ~Truthy(query[r].text)
        /\ StoredTargets(query[r].code) = {}
        /\ ~HasEntry(query[r].code)
        /\ Events(r, MappingTable, "return") # {}
        /\ Events(r, ResolverTable, "return") # {}
        /\ NegativeResult(Response(r))

(* C6 as stated.  A request whose code and text are both absent ends with  *)
(* the 4xx MissingParameters error and makes no lookup and no service      *)
(* call; a request in which one of them is present does not end with       *)
(* MissingParameters.                                                      *)
C6_MissingIffBothAbsent ==
    \A r \in Reqs :
        Done(r)
        => /\ (query[r].code = Undefined /\ query[r].text = Undefined)
                => /\ sent[r] = <<MissingParameters>>
                   /\ log[r] = <<>>
           /\ (query[r].code # Undefined \/ query[r].text # Undefined)
                => \A i \in 1..Len(sent[r]) : sent[r][i].status # 400

(* C6 amended.  A request whose code and text are each absent or empty     *)
(* ends with the 4xx MissingParameters error envelope and makes no lookup  *)
(* and no service call; a request in which one of them is a non-empty      *)
(* string does not end with MissingParameters.                             *)
C6_MissingIffBothAbsentOrEmpty ==
    \A r \in Reqs :
        Done(r)
        => /\ (~Truthy(query[r].code) /\ ~Truthy(query[r].text))
                => /\ Len(sent[r]) = 1
                   /\ Response(r).status >= 400 /\ Response(r).status <= 499
                   /\ ErrorEnvelope(Response(r))
                   /\ log[r] = <<>>
           /\ (Truthy(query[r].code) \/ Truthy(query[r].text))
                => \A i \in 1..Len(sent[r]) :
                      sent[r][i].status < 400 \/ sent[r][i].status > 499

C6_Witness ==
    \E r \in Reqs :
        /\ Done(r)
        /\ query[r].code = "" /\ query[r].text = Undefined
        /\ NamasteSystem(query[r].system)
        /\ sent[r] = <<MissingParameters>>
        /\ log[r] = <<>>

(* C7.  A request that passed validation queries the mapping table if and  *)
(* only if it has a code and a NAMASTE system, and then once; every other  *)
(* request that passed validation starts with the terminology lookup or    *)
(* the semantic search call; and a terminology lookup or semantic search   *)
(* call of a request that queries the mapping table starts only after the  *)
(* mapping query has returned.                                             *)
C7_MappingQueriedIffCodeAndNamaste ==
    \A r \in Reqs :
        (Started(r) /\ (Truthy(query[r].code) \/ Truthy(query[r].text)))
        => /\ (Events(r, MappingTable, "call") # {})
                <=> (Truthy(query[r].code) /\ NamasteSystem(query[r].system))
           /\ Cardinality(Events(r, MappingTable, "call")) <= 1
           /\ ~(Truthy(query[r].code) /\ NamasteSystem(query[r].system))
                => /\ log[r] # <<>>
                   /\ log[r][1].ev = "call"
                   /\ log[r][1].op \in {ResolverTable, AiService}
           /\ \A i \in 1..Len(log[r]) :
                (/\ log[r][i].ev = "call"
                 /\ log[r][i].op # MappingTable
                 /\ Events(r, MappingTable, "call") # {})
                => \E j \in Events(r, MappingTable, "return") : j < i

C7_Witness ==
    \E r \in Reqs :
        /\ Truthy(query[r].code) /\ NamasteSystem(query[r].system)
        /\ Events(r, MappingTable, "return") # {}
        /\ Events(r, ResolverTable, "return") # {}
        /\ AiInvoked(r)
        /\ \E q \in Reqs :
             /\ Truthy(query[q].code) /\ Started(q)
             /\ ~NamasteSystem(query[q].system)
             /\ StoredTargets(query[q].code) # {}
             /\ Events(q, MappingTable, "call") = {}

\* What the terminology lookup of r returns, read from the table itself.
EntryOf(r) == {row \in terms[AyurvedaTable] : row.code = query[r].code}

C8_ResolverState ==
    \A r \in Reqs :
        /\ Events(r, ResolverTable, "call") # {}
              => Truthy(query[r].code) /\ ~Truthy(query[r].text)
        /\ \A i \in Events(r, ResolverTable, "return") :
              /\ \A row \in EntryOf(r) :
                    /\ Len(log[r]) > i
                    /\ log[r][i + 1].op = AiService
                    /\ log[r][i + 1].ev = "call"
                    /\ log[r][i + 1].arg =
                          IF Truthy(row.definition) THEN row.definition ELSE row.display
              /\ EntryOf(r) = {}
                    => /\ ~AiInvoked(r)
                       /\ Done(r)
                       /\ sent[r] = <<NoTextResponse>>

(* C8.  A request resolves its code to a text only when it has a code and  *)
(* no text; when the lookup returns, the text sent to the semantic search  *)
(* is the entry's definition if it has one and its display term            *)
(* otherwise, and without an entry there is no text: the search is not     *)
(* called and the request ends with the no-text result.  The step that     *)
(* resolves changes neither the mapping table nor the terminology tables.  *)
C8_DefinitionResolver ==
    /\ []C8_ResolverState
    /\ [][\A r \in Reqs : (pc[r] = "termQuery" /\ pc'[r] # "termQuery")
                          => (mappings' = mappings /\ terms' = terms)]_vars

C8_Witness ==
    \E r \in Reqs :
        /\ Events(r, ResolverTable, "return") # {}
        /\ \E row \in EntryOf(r) : row.definition = ""
        /\ \E i \in Events(r, AiService, "call") : log[r][i].arg = "Jvara"

(* C9.  Every semantic search call asks for top_k = 3; when the service    *)
(* answers with a non-empty list, all_suggestions of the response is that  *)
(* list, element for element in the same order, and translatedCode is the  *)
(* code of its first element.                                              *)
C9_TopKAndOrderPreserved ==
    \A r \in Reqs :
        /\ \A i \in Events(r, AiService, "call") : log[r][i].top_k = 3
        /\ \A i \in Events(r, AiService, "return") :
              LET o == log[r][i].result IN
              (o.kind = "list" /\ Len(o.suggestions) > 0)
              => /\ Len(sent[r]) = 1
                 /\ Response(r).body.all_suggestions = o.suggestions
                 /\ Response(r).body.translatedCode = o.suggestions[1].code

C9_Witness ==
    \E r \in Reqs :
        /\ Done(r)
        /\ \E i \in Events(r, AiService, "return") :
             /\ log[r][i].result.kind = "list"
             /\ log[r][i].result.suggestions =
                   <<[code |-> "SR11", score |-> 40], [code |-> "5A11", score |-> 90]>>
        /\ Response(r).body.all_suggestions =
              <<[code |-> "SR11", score |-> 40], [code |-> "5A11", score |-> 90]>>

(* C10.  When the service answers with an empty list, the request ends     *)
(* with the single 200 response result=false, method "semantic_ai", a      *)
(* message and no translatedCode.                                          *)
C10_EmptyAnswerIsNotFound ==
    \A r \in Reqs :
        \A i \in Events(r, AiService, "return") :
            (log[r][i].result.kind = "list" /\ Len(log[r][i].result.suggestions) = 0)
            => /\ Done(r)
               /\ Len(sent[r]) = 1
               /\ NegativeResult(Response(r))
               /\ "method" \in DOMAIN Response(r).body
               /\ Response(r).body.method = "semantic_ai"

C10_Witness ==
    \E r \in Reqs :
        /\ Done(r)
        /\ \E i \in Events(r, AiService, "return") :
             log[r][i].result.kind = "list" /\ Len(log[r][i].result.suggestions) = 0
        /\ NegativeResult(Response(r))

(* C11.  When the mapping lookup or the terminology lookup of a request    *)
(* fails, the request ends there with the single response {error,          *)
(* details} of status 5xx, which is no result response, and the semantic   *)
(* search is not called: the failed lookup is the last call of the         *)
(* request.                                                                *)
C11_StoreFailureIsError ==
    \A r \in Reqs :
        \A i \in 1..Len(log[r]) :
            (log[r][i].ev = "throw" /\ log[r][i].op \in {MappingTable} \cup TermTables)
            => /\ Done(r)
               /\ i = Len(log[r])
               /\ ~AiInvoked(r)
               /\ Len(sent[r]) = 1
               /\ Response(r).status >= 500 /\ Response(r).status <= 599
               /\ ErrorEnvelope(Response(r))
               /\ "details" \in DOMAIN Response(r).body
               /\ Response(r).body.details = log[r][i].result

C11_Witness ==
    /\ \E r \in Reqs :
         /\ Events(r, MappingTable, "throw") # {}
         /\ Truthy(query[r].text)
         /\ Done(r) /\ Response(r).status = 500
    /\ \E r \in Reqs :
         /\ Events(r, ResolverTable, "throw") # {}
         /\ HasEntry(query[r].code)
         /\ Done(r) /\ Response(r).status = 500

(* C12.  Every response that is no error envelope has the uniform shape:   *)
(* with result=true it carries method, confidence and translatedCode;      *)
(* with result=false it carries a message and no translatedCode; and a     *)
(* method, where there is one, is "deterministic" or "semantic_ai".        *)
C12_UniformResponseShape ==
    \A r \in Reqs :
        \A i \in 1..Len(sent[r]) :
            LET body == sent[r][i].body IN
            "error" \notin DOMAIN body
            => /\ sent[r][i].status = 200
               /\ "result" \in DOMAIN body
               /\ body.result \in BOOLEAN
               /\ body.result = TRUE
                    => {"method", "confidence", "translatedCode"} \subseteq DOMAIN body
               /\ body.result = FALSE
                    => "message" \in DOMAIN body /\ "translatedCode" \notin DOMAIN body
               /\ "method" \in DOMAIN body
                    => body.method \in {"deterministic", "semantic_ai"}

C12_Witness ==
    /\ \E r \in Reqs : Done(r) /\ sent[r] = <<NoSuggestionsResponse>>
    /\ \E r \in Reqs : Done(r) /\ PositiveResult(Response(r))
                               /\ Response(r).body.method = "deterministic"

(* C13.  No step of a translate request, on any path, changes the mapping  *)
(* table or a terminology table.                                           *)
C13_TranslateIsReadOnly ==
    [][(\E r \in Reqs : pc'[r] # pc[r]) => (mappings' = mappings /\ terms' = terms)]_vars

C13_Witness ==
    /\ \E r \in Reqs :
         /\ Done(r) /\ Truthy(query[r].code)
         /\ PositiveResult(Response(r))
         /\ Response(r).body.method = "semantic_ai"
    /\ \E r \in Reqs : Done(r) /\ StoreThrew(r)
    /\ mappings # {}

\* Lines 681-762 run from the first to the last line with no other request
\* in between: the responses request r can get from the store as it is, the
\* lookups failing where they failed for r and the service answering what it
\* answered to r.
AloneResponses(r) ==
    LET q       == query[r]
        det     == Truthy(q.code) /\ NamasteSystem(q.system)
        hits    == {row \in mappings : row.source_code = q.code}
        entry   == {row \in terms[AyurvedaTable] : row.code = q.code}
        mapErr  == {log[r][i].result : i \in Events(r, MappingTable, "throw")}
        termErr == {log[r][i].result : i \in Events(r, AyurvedaTable, "throw")}
        answers == {log[r][i].result : i \in Events(r, AiService, "return")
                                            \cup Events(r, AiService, "throw")}
        texts   == IF Truthy(q.text) THEN {q.text}
                   ELSE {IF Truthy(row.definition) THEN row.definition ELSE row.display :
                            row \in entry}
    IN  IF ~Truthy(q.code) /\ ~Truthy(q.text) THEN {MissingParameters}
        ELSE IF det /\ mapErr # {} THEN {TranslationFailed(e) : e \in mapErr}
        ELSE IF det /\ hits # {} THEN {DeterministicResponse(row) : row \in hits}
        ELSE IF ~Truthy(q.text) /\ termErr # {} THEN {TranslationFailed(e) : e \in termErr}
        ELSE IF texts = {} THEN {NoTextResponse}
        ELSE {AiAnswer(o) : o \in answers}

(* C14.  Whatever the steps of other translate requests that come between  *)
(* the steps of a request, the request ends with one response, and it is   *)
(* a response the request gets when it runs alone against the same store   *)
(* with the same answers of the semantic service.                          *)
C14_NoInterference ==
    \A r \in Reqs :
        Done(r) => /\ Len(sent[r]) = 1
                   /\ Response(r) \in AloneResponses(r)

C14_Witness ==
    \E r \in Reqs : \E o \in Reqs \ {r} :
        /\ Done(r) /\ Len(log[r]) = 6
        /\ PositiveResult(Response(r))
        /\ query[r].code = "BB-2"
        /\ pc[o] = "mapQuery"
        /\ query[o].code = "AAA-1"
        /\ StoredTargets(query[o].code) # {}

(* C15.  A request posts to the semantic search at most once, and a        *)
(* rejected call is the last call of the request: it is followed by the    *)
(* error response and by no call of the service or of the store.           *)
C15_NoRetry ==
    \A r \in Reqs :
        /\ Cardinality(Events(r, AiService, "call")) <= 1
        /\ \A i \in Events(r, AiService, "throw") :
              /\ i = Len(log[r])
              /\ Done(r)
              /\ Len(sent[r]) = 1
              /\ ErrorEnvelope(Response(r))

C15_Witness ==
    \E r \in Reqs :
        /\ Done(r)
        /\ Events(r, MappingTable, "return") # {}
        /\ Events(r, ResolverTable, "return") # {}
        /\ Events(r, AiService, "throw") # {}
        /\ Len(log[r]) = 6

-----------------------------------------------------------------------------
(* Vocabulary of the properties of generateCodeSystem.                     *)

StoreTables == TermTables \cup {MappingTable}

\* A row write of the run rejected.
RowWriteThrew ==
    \E i \in 1..Len(ilog) : ilog[i].ev = "throw" /\ ilog[i].op \in StoreTables

\* BEGIN returned and the run has not ended: its transaction is in flight
\* or just committed.
InFlight ==
    /\ ipc \in {"write", "commit", "rollback", "select"}
    /\ \E i \in 1..Len(ilog) : ilog[i].op = "BEGIN" /\ ilog[i].ev = "return"

\* The writes of the batch the store has run.
Applied == IF InFlight /\ (tx.open \/ ipc = "select") THEN 1..(step - 1) ELSE {}

\* The terminology tables as the run sees them.
TermView == IF tx.open THEN tx.t ELSE terms

\* The tables once the whole batch is committed.
AfterBatch == WrittenAll(before, Batch, Len(Batch))

\* What a lookup of code in table op returns from tables.
Lookup(tables, op, code) ==
    IF op = MappingTable
    THEN {row \in tables.m : row.source_code = code}
    ELSE {row \in tables.t[op] : row.code = code}

(* C16.  A mapping insert whose (source_code, target_code) pair is stored  *)
(* leaves the mapping table as it was, source_system and target_system of  *)
(* the stored row included, and a run of a batch that was committed before *)
(* leaves the mapping table as it found it.                                *)
C16_RerunChangesNothing ==
    (tx.open /\ config \in ran) => (tx.m = before.m /\ mappings = before.m)

C16_InsertOrIgnore ==
    /\ []C16_RerunChangesNothing
    /\ [][/\ (/\ ipc = "write"
              /\ step' = step + 1
              /\ Batch[step].table = MappingTable
              /\ \E x \in tx.m : SamePair(x, Batch[step].row))
             => tx'.m = tx.m
          /\ (ipc = "commit" /\ config \in ran) => mappings' = mappings]_vars

C16_Witness ==
    /\ ipc = "commit"
    /\ tx.open
    /\ config \in ran
    /\ \E i \in 1..Len(ilog) : \E x \in tx.m :
          /\ ilog[i].op = MappingTable
          /\ ilog[i].ev = "return"
          /\ ilog[i].result = 0
          /\ SamePair(x, ilog[i].arg)
          /\ x.source_system # ilog[i].arg.source_system

(* C17.  After a terminology upsert, the table has exactly one entry of    *)
(* the code, and it is the row of the latest upsert of that code: its      *)
(* display, definition and broader_term.                                   *)
C17_UpsertOverwrites ==
    \A i \in Applied :
        LET w == Batch[i] IN
        (/\ w.table \in TermTables
         /\ ~\E j \in Applied : j > i /\ Batch[j].table = w.table
                                      /\ Batch[j].row.code = w.row.code)
        => {x \in TermView[w.table] : x.code = w.row.code} = {w.row}

C17_Witness ==
    /\ ipc = "select"
    /\ \E i, j \in Applied :
          /\ i < j
          /\ Batch[i].table = AyurvedaTable
          /\ Batch[j].table = AyurvedaTable
          /\ Batch[i].row.code = Batch[j].row.code
          /\ Batch[i].row.display # Batch[j].row.display
          /\ Batch[i].row.definition # Batch[j].row.definition
          /\ Batch[i].row.broader_term # Batch[j].row.broader_term
          /\ Batch[j].row \in terms[AyurvedaTable]

(* C18.  Once a row write of a batch has failed, the tables hold exactly   *)
(* the rows they held when the batch began, the transaction is rolled back *)
(* and the run ends without committing.                                    *)
C18_AllOrNothing ==
    RowWriteThrew =>
        /\ Committed = before
        /\ ipc \in {"rollback", "idle"}
        /\ ipc = "idle" => ~tx.open

C18_Witness ==
    /\ ipc = "idle"
    /\ RowWriteThrew
    /\ ilog[Len(ilog)].op = "ROLLBACK"
    /\ \E i \in 1..Len(ilog) :
          /\ ilog[i].ev = "return"
          /\ ilog[i].op \in TermTables
          /\ ilog[i].arg \notin before.t[ilog[i].op]
          /\ ilog[i].arg \notin terms[ilog[i].op]

(* C19.  A lookup of a translate request made while a batch is in flight   *)
(* returns the rows of the tables as they were before the batch or as they *)
(* are with the whole batch committed.                                     *)
C19_NoPartialRead ==
    [][\A r \in Reqs :
        (/\ InFlight
         /\ pc[r] \in {"mapQuery", "termQuery"}
         /\ Len(log'[r]) > Len(log[r])
         /\ log'[r][Len(log[r]) + 1].ev = "return")
        => LET ev == log'[r][Len(log[r]) + 1]
           IN  ev.result \in {Lookup(before, ev.op, ev.arg),
                              Lookup(AfterBatch, ev.op, ev.arg)}]_vars

C19_Witness ==
    /\ ipc = "select"
    /\ InFlight
    /\ \E r \in Reqs : \E i, j \in 1..Len(log[r]) :
          /\ i < j
          /\ log[r][i].op = MappingTable
          /\ log[r][i].ev = "return"
          /\ log[r][i].result = Lookup(before, MappingTable, log[r][i].arg)
          /\ log[r][i].result # Lookup(AfterBatch, MappingTable, log[r][i].arg)
          /\ log[r][j].op = AyurvedaTable
          /\ log[r][j].ev = "return"
          /\ log[r][j].result = Lookup(AfterBatch, AyurvedaTable, log[r][j].arg)
          /\ log[r][j].result # Lookup(before, AyurvedaTable, log[r][j].arg)

(* C20.  Every entry of a terminology table, committed or written in the   *)
(* open transaction, has a code and a non-empty display, no two entries of *)
(* a table have the same code, and the entry is of a row of the file whose *)
(* code cell gives a NAMASTE code and whose display cell is not empty.     *)
C20_EntriesHaveCodeAndDisplay ==
    \A t \in TermTables : \A rows \in {terms[t], TermView[t]} :
        /\ UniqueCodes(rows)
        /\ \A x \in rows :
              /\ Truthy(x.code)
              /\ Truthy(x.display)
              /\ \E i \in 1..Len(files[t]) :
                    /\ extractMappingCodes(files[t][i].code).namasteCode = x.code
                    /\ files[t][i].display = x.display
                    /\ Truthy(files[t][i].display)

C20_Witness ==
    /\ ipc = "select"
    /\ Len(csvRows) = 2
    /\ csvRows[1] = UntitledRow
    /\ csvRows[2] \in {BlankRow, FeverRow}
    /\ \E x \in mappings : x.source_code = "BB-2"
    /\ \A x \in terms[AyurvedaTable] : x.code # "BB-2"

(* C21.  No two rows of the mapping table, committed or written in the     *)
(* open transaction, have the same source code: a source code has zero or  *)
(* one target code.                                                        *)
C21_AtMostOneMapping ==
    \A rows \in {mappings, tx.m} :
        \A x, y \in rows : x.source_code = y.source_code => x = y

(* C22.  The target code of a deterministic response is that of a mapping  *)
(* stored under the source system the request names.                       *)
C22_LookupScopedBySystem ==
    \A r \in Reqs :
        (/\ Done(r)
         /\ PositiveResult(Response(r))
         /\ Response(r).body.method = "deterministic")
        => \E i \in Events(r, MappingTable, "return") : \E row \in log[r][i].result :
              /\ row.target_code = Response(r).body.translatedCode
              /\ row.source_system = query[r].system

-----------------------------------------------------------------------------
(* Vocabulary of the properties of extractMappingCodes.                    *)

\* The words of InputWords of the ICD grammar: one to three capital
\* letters, digits, then optionally a dot and digits, then optionally one
\* capital letter.
IcdWords == {"SR11", "SK2.1Z"}

\* Where the tokens of the input are.
TokenAt == {i \in 1..Len(cell.lexemes) : cell.lexemes[i] \in InputWords}

IcdTokenAt     == {i \in TokenAt : cell.lexemes[i] \in IcdWords}
NamasteTokenAt == TokenAt \ IcdTokenAt

\* The token at the last of the places S, null if there is none.
LastToken(S) ==
    IF S = {} THEN Undefined ELSE cell.lexemes[CHOOSE i \in S : \A j \in S : j <= i]

CalledOnString == extracted.called /\ cell.type = "string"

(* C23.  Called on a string of two or more tokens, extractMappingCodes     *)
(* gives as icdCode the last token of the ICD grammar and as namasteCode   *)
(* the last token not of the ICD grammar, null where there is none.        *)
C23_LastOfEachKind ==
    (CalledOnString /\ Cardinality(TokenAt) >= 2) =>
        /\ ~extracted.threw
        /\ extracted.icdCode = LastToken(IcdTokenAt)
        /\ extracted.namasteCode = LastToken(NamasteTokenAt)

C23_Witness ==
    /\ cell = Str(<<"SR11", " ", "(", "AAA-1", ")">>)
    /\ extracted.called
    /\ extracted.namasteCode = "AAA-1"
    /\ extracted.icdCode = "SR11"

(* C24.  Called on a string of exactly one token, extractMappingCodes      *)
(* gives that token as namasteCode and null as icdCode.                    *)
C24_SingleTokenIsNamaste ==
    (CalledOnString /\ Cardinality(TokenAt) = 1) =>
        /\ ~extracted.threw
        /\ extracted.icdCode = Undefined
        /\ extracted.namasteCode = LastToken(TokenAt)

C24_Witness ==
    /\ cell = Str(<<"(", "SR11", ")">>)
    /\ extracted.called
    /\ extracted.namasteCode = "SR11"
    /\ extracted.icdCode = Undefined

(* C25, as claimed.  A token of the ICD grammar is never the namasteCode   *)
(* and the icdCode is then a token of the ICD grammar, on every string.    *)
C25_IcdTokenIsIcd ==
    CalledOnString =>
        \A i \in IcdTokenAt :
            /\ extracted.namasteCode # cell.lexemes[i]
            /\ extracted.icdCode \in IcdWords

(* C25, amended.  On a string of two or more tokens, a token of the ICD    *)
(* grammar is never the namasteCode and the icdCode is a token of the ICD  *)
(* grammar, also when a token of the NAMASTE shape stands beside it.       *)
C25_IcdTokenIsIcdAmongSeveral ==
    (CalledOnString /\ Cardinality(TokenAt) >= 2) =>
        \A i \in IcdTokenAt :
            /\ extracted.namasteCode # cell.lexemes[i]
            /\ extracted.icdCode \in IcdWords

C25_Witness ==
    /\ cell = Str(<<"AAA-1", " ", "SK2.1Z">>)
    /\ extracted.called
    /\ extracted.icdCode = "SK2.1Z"
    /\ extracted.namasteCode = "AAA-1"

(* C26.  Every call returns a pair and throws nothing; on null, undefined, *)
(* the empty string and a string without a token both parts are null; the  *)
(* call changes nothing else.                                              *)
C26_ReturnsPair ==
    extracted.called =>
        /\ ~extracted.threw
        /\ extracted.namasteCode \in InputWords \cup {Undefined}
        /\ extracted.icdCode \in InputWords \cup {Undefined}
        /\ (cell.type \in {"null", "undefined"} \/ TokenAt = {})
           => (extracted.namasteCode = Undefined /\ extracted.icdCode = Undefined)

C26_TotalAndPure ==
    /\ []C26_ReturnsPair
    /\ [][extracted' # extracted => UNCHANGED <<mappings, terms, tvars, ivars, cell>>]_vars

C26_Witness ==
    /\ cell = Num("7")
    /\ extracted.called
    /\ ~extracted.threw
    /\ extracted.namasteCode = Undefined

(* C27.  A finished request with a code and no text, not answered from a   *)
(* mapping and with no failed lookup, for whose code some terminology      *)
(* table has an entry, has asked the semantic search with the definition   *)
(* or display of such an entry and does not end with the no-text result.   *)
C27_ResolverReadsEveryVocabulary ==
    \A r \in Reqs :
        (/\ Done(r)
         /\ Truthy(query[r].code)
         /\ ~Truthy(query[r].text)
         /\ ~StoreThrew(r)
         /\ ~(PositiveResult(Response(r)) /\ Response(r).body.method = "deterministic")
         /\ \E t \in TermTables : \E x \in terms[t] : x.code = query[r].code)
        => /\ Response(r) # NoTextResponse
           /\ \E i \in Events(r, AiService, "call") :
                \E t \in TermTables : \E x \in terms[t] :
                    /\ x.code = query[r].code
                    /\ log[r][i].arg = OrElse(x.definition, x.display)

\* The request ended with an answer from the mapping table.
DeterministicHit(r) ==
    Done(r) /\ PositiveResult(Response(r)) /\ Response(r).body.method = "deterministic"

(* C28.  Two requests with the same code answered from the same mapping    *)
(* table are answered with the same translatedCode.                        *)
C28_SameRequestSameAnswer ==
    \A r, o \in Reqs :
        (/\ DeterministicHit(r)
         /\ DeterministicHit(o)
         /\ query[r].code = query[o].code
         /\ query[r].system = query[o].system)
        => Response(r).body.translatedCode = Response(o).body.translatedCode

(* C29.  A request that has not ended has sent no response, a request     *)
(* that has ended has sent exactly one, and every request that was         *)
(* received ends, its lookups and its semantic call settling.              *)
C29_OneResponseState ==
    \A r \in Reqs :
        /\ Done(r) => Len(sent[r]) = 1
        /\ ~Done(r) => Len(sent[r]) = 0

C29_ExactlyOneResponse ==
    /\ []C29_OneResponseState
    /\ \A r \in Reqs : Started(r) ~> Done(r)

C29_Witness ==
    /\ Done("r1") /\ StoreThrew("r1") /\ Len(sent["r1"]) = 1
    /\ Done("r2") /\ AiInvoked("r2") /\ Len(log["r2"]) = 6 /\ Len(sent["r2"]) = 1

-----------------------------------------------------------------------------
(* Vocabulary of the properties of the pool clients.                       *)

\* Client c of a run whose transaction is open or not, and which is past
\* its finally block or not.
ReleasedOnce(c, open, over) ==
    /\ c.releases <= 1
    /\ c.held => (c.acquired /\ c.releases = 0)
    /\ open => c.held
    /\ c.releases = 1 => (c.acquired /\ ~c.held /\ ~open)
    /\ over => (~c.held /\ ~open /\ (c.acquired => c.releases = 1))

(* C30.  A run of generateCodeSystem or of the master ingestion that was   *)
(* given a client releases it once and not before its transaction is       *)
(* committed or rolled back; past its finally block, on the success path   *)
(* and on every failure path, the run holds no client and has no open      *)
(* transaction.                                                            *)
C30_ConnectionReleasedOnce ==
    /\ ReleasedOnce(conn, tx.open, ipc \in {"idle", "select"})
    /\ ReleasedOnce(mconn, mtx.open, mpc = "idle")

C30_Witness ==
    /\ ipc = "idle"
    /\ RowWriteThrew
    /\ ilog[Len(ilog)].op = "ROLLBACK"
    /\ ilog[Len(ilog)].ev = "throw"
    /\ conn.releases = 1
    /\ mpc = "idle"
    /\ master.icd # {}
    /\ mconn.releases = 1

(* C31.  When no run of the master ingestion is in flight, every code      *)
(* registered with the AI service is the code of a row of                  *)
(* icd11_codes_master, whether the runs committed or rolled back.          *)
C31_EmbeddingsAreCommitted ==
    mpc = "idle" => \A code \in embeddings : \E x \in master.icd : x.code = code

(* C32.  Every committed row of the mapping table has as source code the   *)
(* code of a committed entry of one of the NAMASTE terminology tables.     *)
C32_MappingHasEntry ==
    \A x \in mappings : \E t \in TermTables : \E e \in terms[t] : e.code = x.source_code

=============================================================================
